---------------------------- MODULE Spec2Model ----------------------------
(***************************************************************************)
(* A model of the retrieval-and-indexing core of the news RAG pipeline:   *)
(*   - SqlStore (src/sql/db.py): the deduplicating documents table,       *)
(*   - simple_chunk / ChromaStore / Indexer (src/vector_store/indexer.py),*)
(*   - _mmr_select (src/retriever/search.py).                             *)
(* Strings are sequences of one-character strings, so that len(), slices, *)
(* split() and strip() are computed the way Python computes them.         *)
(***************************************************************************)
EXTENDS Integers, Sequences, FiniteSets, TLC

VARIABLES
    \* ---- SqlStore and the calls made on it, one at a time ----
    rows,       \* the documents table, in insertion order
    arg,        \* the most recent call that returned: its name and argument
    ret,        \* the value it returned
    \* ---- two upsert_document calls on two connections ----
    cpc,        \* per caller: position inside upsert_document
    cdoc,       \* per caller: its doc argument
    crow,       \* per caller: the row its SELECT fetched (None: no row)
    cret,       \* per caller: the value returned (None: not returned)
    \* ---- one call of simple_chunk, statement by statement ----
    ck,         \* its arguments, locals and position
    \* ---- ChromaStore / Indexer ----
    col,        \* the Chroma collection: record id -> record
    ix,         \* the index_recent call in progress: position, locals and
                \* the batches submitted to the embedding service
    \* ---- one call of _mmr_select ----
    mm,         \* its arguments, locals and position
    \* ---- one call of Retriever.search ----
    sr,         \* the Retriever's settings, the call's locals and position
    \* ---- one run of MainApp.run_ingest ----
    ing,        \* its locals and position
    \* ---- one call of Answerer.answer or Answerer.answer_multi ----
    an,         \* its arguments, locals and position
    \* ---- two index_recent runs over the same store ----
    rx          \* the shared limit_docs and, per run, position and locals

storeVars == <<rows, arg, ret>>
concVars  == <<cpc, cdoc, crow, cret>>
ixVars    == <<col, ix>>
restVars  == <<sr, ing, an, rx>>
notChunk  == <<storeVars, concVars, ixVars, mm, restVars>>
vars == <<rows, arg, ret, cpc, cdoc, crow, cret, ck, col, ix, mm, sr, ing,
         an, rx>>

None == "None"

(***************************************************************************)
(* Bounds of the model.                                                    *)
(***************************************************************************)
MaxUrls   == 2      \* distinct urls offered to upsert_document
MaxNow    == 1      \* time.strftime reads a time in 0..MaxNow
MaxLimit  == 2      \* fetch_all / index_recent limits are 0..MaxLimit
MaxTextLen == 5     \* simple_chunk is called on every text up to this length
MaxChars  == 3      \* ... with max_chars in 1..MaxChars
MaxPieces == 8      \* a hard-split loop is followed for this many windows
MaxCands  == 3      \* _mmr_select is called on up to this many candidates
LambdaDen == 2      \* ... with lambda_coef = n / LambdaDen, n in 0..LambdaDen
MaxTopK   == 2      \* a Retriever is built with top_k in 1..MaxTopK
MaxModels == 2      \* answer_multi is given up to this many models
MaxExtractLen == 3  \* the crawler extracts every text up to this length
CrawlMinChars == 1  \* fetch_rss_docs drops a text shorter than this (400)

Urls   == 1..MaxUrls
Hashes == {"h1", "h2"}
Times  == 0..MaxNow

(***************************************************************************)
(* Python helpers                                                          *)
(***************************************************************************)
NL == "\n"
SP == " "
IsSpace(ch) == ch = NL \/ ch = SP

Min(a, b) == IF a <= b THEN a ELSE b
Max(a, b) == IF a >= b THEN a ELSE b

\* s[i:j] for 0 <= i, 0 <= j (Python clamps both ends to len(s)).
Slice(s, i, j) ==
    LET lo == Min(i, Len(s))
        hi == Min(j, Len(s))
    IN  IF hi <= lo THEN <<>> ELSE SubSeq(s, lo + 1, hi)

\* s[i:j] with Python's rule for a negative index (counted from the end,
\* clamped at 0).
PySlice(s, i, j) ==
    LET ni == IF i < 0 THEN Max(i + Len(s), 0) ELSE i
        nj == IF j < 0 THEN Max(j + Len(s), 0) ELSE j
    IN  Slice(s, ni, nj)

(***************************************************************************)
(* SqlStore                                                                *)
(***************************************************************************)
\* The doc dicts handed to upsert_document.  title, source, date_published,
\* raw_text and lang are five independent columns; the inputs come in two
\* variants that differ in all five.
Variants ==
    { [meta |-> "m1", text |-> <<"a">>],
      [meta |-> "m2", text |-> <<"a", "b", "c", "d", "e", "f">>] }

DocInputs ==
    { [url |-> u, content_hash |-> h, title |-> v.meta, source |-> v.meta,
       date_published |-> v.meta, raw_text |-> v.text, lang |-> v.meta] :
        u \in Urls, h \in Hashes, v \in Variants }

\* A lookup by url alone (the content_hash disjunct left out).
MatchingIdsUrlOnly(tbl, doc) ==
    { i \in 1..Len(tbl) : tbl[i].url = doc.url }

\* SELECT id FROM documents WHERE url=? OR content_hash=?
MatchingIds(tbl, doc) ==
    { i \in 1..Len(tbl) :
        tbl[i].url = doc.url \/ tbl[i].content_hash = doc.content_hash }

\* INSERT INTO documents(...) VALUES(...): AUTOINCREMENT id, date_crawled
\* stamped with the current time.
NewRow(tbl, doc, t) ==
    [id |-> Len(tbl) + 1, url |-> doc.url, title |-> doc.title,
     source |-> doc.source, date_published |-> doc.date_published,
     date_crawled |-> t, content_hash |-> doc.content_hash,
     raw_text |-> doc.raw_text, lang |-> doc.lang]

InsertRow(tbl, doc, t) == Append(tbl, NewRow(tbl, doc, t))

\* SELECT id, url, title, source, date_published, raw_text, lang
\* FROM documents ORDER BY id DESC LIMIT ?
RowDict(r) ==
    [id |-> r.id, url |-> r.url, title |-> r.title, source |-> r.source,
     date_published |-> r.date_published, raw_text |-> r.raw_text,
     lang |-> r.lang]

\* The same query with ORDER BY id ASC.
FetchAllRowsAscending(tbl, limit) ==
    LET n == Min(limit, Len(tbl))
    IN  [k \in 1..n |-> RowDict(tbl[k])]

FetchAllRows(tbl, limit) ==
    LET n == Min(limit, Len(tbl))
    IN  [k \in 1..n |-> RowDict(tbl[Len(tbl) + 1 - k])]

\* `if doc_id:` -- how run_ingest reads the id returned by upsert_document
\* as "inserted" (an int is true unless it is 0).
Truthy(v) == v # 0

NoCall == [op |-> "none"]

StoreInit ==
    /\ rows = <<>>
    /\ arg = NoCall
    /\ ret = None

ConcIdle ==
    /\ cpc = [p \in {1, 2} |-> "idle"]
    /\ cdoc = [p \in {1, 2} |-> None]
    /\ crow = [p \in {1, 2} |-> None]
    /\ cret = [p \in {1, 2} |-> None]

(***************************************************************************)
(* simple_chunk                                                            *)
(***************************************************************************)

\* str.strip(): leading and trailing whitespace removed.
RECURSIVE LStrip(_)
LStrip(s) ==
    IF s = <<>> THEN <<>>
    ELSE IF IsSpace(Head(s)) THEN LStrip(Tail(s)) ELSE s

RECURSIVE RStrip(_)
RStrip(s) ==
    IF s = <<>> THEN <<>>
    ELSE IF IsSpace(s[Len(s)]) THEN RStrip(SubSeq(s, 1, Len(s) - 1)) ELSE s

Strip(s) == RStrip(LStrip(s))

\* text.split("\n"): the segments between newlines, empty ones included.
RECURSIVE SplitNL(_, _)
SplitNL(s, cur) ==
    IF s = <<>> THEN <<cur>>
    ELSE IF Head(s) = NL THEN <<cur>> \o SplitNL(Tail(s), <<>>)
    ELSE SplitNL(Tail(s), Append(cur, Head(s)))

RECURSIVE StripNonEmpty(_)
StripNonEmpty(segs) ==
    IF segs = <<>> THEN <<>>
    ELSE LET p == Strip(Head(segs))
         IN  IF p = <<>> THEN StripNonEmpty(Tail(segs))
             ELSE <<p>> \o StripNonEmpty(Tail(segs))

\* paras = [p.strip() for p in text.split("\n") if p.strip()]
Paras(text) == StripNonEmpty(SplitNL(text, <<>>))

\* keep = buf[-overlap:] if overlap > 0 and len(buf) > overlap else ""
Keep(buf, overlap) ==
    IF overlap > 0 /\ Len(buf) > overlap
    THEN SubSeq(buf, Len(buf) - overlap + 1, Len(buf))
    ELSE <<>>

\* One iteration of `for p in paras`: the new (chunks, buf).
ParaIter(chunks, buf, p, max_chars, overlap) ==
    IF buf = <<>> THEN [chunks |-> chunks, buf |-> p]
    ELSE IF Len(buf) + 1 + Len(p) <= max_chars
         THEN [chunks |-> chunks, buf |-> buf \o <<NL>> \o p]
         ELSE [chunks |-> Append(chunks, buf),
               buf |-> Strip(Keep(buf, overlap) \o <<NL>> \o p)]

\* step = max_chars - overlap
WindowStep(max_chars, overlap) == max_chars - overlap

\* A window whose end is not clamped to one max_chars past its start.
WindowPieceLong(c, start, max_chars) ==
    PySlice(c, start, Min(start + max_chars + 1, Len(c)))

\* end = min(start + max_chars, len(c)); piece = c[start:end]
WindowPiece(c, start, max_chars) ==
    PySlice(c, start, Min(start + max_chars, Len(c)))

(***************************************************************************)
(* simple_chunk as a function (used by Indexer._chunk_doc).  HardSplit is  *)
(* the while loop: like the loop, it ends only if start reaches len(c).    *)
(***************************************************************************)
RECURSIVE AccParas(_, _, _, _, _)
AccParas(paras, chunks, buf, max_chars, overlap) ==
    IF paras = <<>>
    THEN IF buf # <<>> THEN Append(chunks, buf) ELSE chunks
    ELSE LET n == ParaIter(chunks, buf, Head(paras), max_chars, overlap)
         IN  AccParas(Tail(paras), n.chunks, n.buf, max_chars, overlap)

RECURSIVE HardSplit(_, _, _, _)
HardSplit(c, start, max_chars, step) ==
    IF start < Len(c)
    THEN <<WindowPiece(c, start, max_chars)>>
             \o HardSplit(c, start + step, max_chars, step)
    ELSE <<>>

RECURSIVE SplitAll(_, _, _)
SplitAll(chunks, max_chars, overlap) ==
    IF chunks = <<>> THEN <<>>
    ELSE LET c == Head(chunks)
         IN  (IF Len(c) <= max_chars THEN <<c>>
              ELSE HardSplit(c, 0, max_chars, WindowStep(max_chars, overlap)))
             \o SplitAll(Tail(chunks), max_chars, overlap)

SimpleChunk(text, max_chars, overlap) ==
    IF text = <<>> THEN <<>>
    ELSE SplitAll(AccParas(Paras(text), <<>>, <<>>, max_chars, overlap),
                  max_chars, overlap)

(***************************************************************************)
(* ChromaStore and Indexer.  The Indexer is built with these parameters    *)
(* (scaled down from max_chars=1200, overlap=120, min_chunk_chars=200,     *)
(* batch_size=32).                                                         *)
(***************************************************************************)
IxMaxChars == 3
IxOverlap  == 1
IxMinChunk == 2
IxBatch    == 2

\* _chunk_doc without the removal of the short chunks.
ChunkDocNoFilter(text) == SimpleChunk(text, IxMaxChars, IxOverlap)

\* _chunk_doc: simple_chunk, then the chunks shorter than min_chunk_chars
\* removed.
ChunkDoc(text) ==
    LET Long(c) == Len(c) >= IxMinChunk
    IN  SelectSeq(SimpleChunk(text, IxMaxChars, IxOverlap), Long)

\* An id made of the chunk's number alone.
ChunkIdNoDoc(doc_id, i) == <<0, i>>

\* f"doc_{doc_id}_chunk_{i}"
ChunkId(doc_id, i) == <<doc_id, i>>

ChunkRecord(d, chunks, embeddings, i) ==
    [document |-> chunks[i], embedding |-> embeddings[i],
     metadata |-> [doc_id |-> d.id, url |-> d.url, title |-> d.title,
                   source |-> d.source,
                   date_published |-> d.date_published,
                   chunk_index |-> i - 1, length |-> Len(chunks[i])]]

\* An upsert that never overwrites: a chunk whose id is taken is stored
\* under an id numbered past the records already there.
UpsertChunksAdd(c, d, chunks, embeddings) ==
    IF chunks = <<>> THEN c
    ELSE LET n   == Cardinality(DOMAIN c)
             ids == [i \in 1..Len(chunks) |->
                        IF ChunkId(d.id, i - 1) \in DOMAIN c
                        THEN ChunkId(d.id, i - 1 + n + Len(chunks))
                        ELSE ChunkId(d.id, i - 1)]
             new == { ids[i] : i \in 1..Len(chunks) }
             pos(id) == CHOOSE i \in 1..Len(chunks) : ids[i] = id
         IN  [id \in (DOMAIN c) \cup new |->
                 IF id \in new
                 THEN ChunkRecord(d, chunks, embeddings, pos(id))
                 ELSE c[id]]

\* ChromaStore.upsert_chunks: col.upsert overwrites a record whose id is
\* already in the collection and adds the others.
UpsertChunks(c, d, chunks, embeddings) ==
    IF chunks = <<>> THEN c
    ELSE LET ids == [i \in 1..Len(chunks) |-> ChunkId(d.id, i - 1)]
             new == { ids[i] : i \in 1..Len(chunks) }
             pos(id) == CHOOSE i \in 1..Len(chunks) : ids[i] = id
         IN  [id \in (DOMAIN c) \cup new |->
                 IF id \in new
                 THEN ChunkRecord(d, chunks, embeddings, pos(id))
                 ELSE c[id]]

\* The passage embedding of one text, as the service computes it.
EmbedVec(text) == <<"emb", text>>

\* What one embed_passage call can do with a batch: return one vector per
\* text, return a data list one item short or one item long, or raise.
EmbedOutcomes == {"ok", "short", "long", "error"}

EmbedResponse(batch, outcome) ==
    LET full == [i \in 1..Len(batch) |-> EmbedVec(batch[i])]
    IN  CASE outcome = "short" -> SubSeq(full, 1, Len(full) - 1)
          [] outcome = "long"  -> Append(full, <<"emb", "extra">>)
          [] OTHER             -> full

\* for i in range(0, len(chunks), batch_size): batch = chunks[i:i+batch_size]
NumBatches(chunks) == (Len(chunks) + IxBatch - 1) \div IxBatch
Batch(chunks, b) == Slice(chunks, (b - 1) * IxBatch, b * IxBatch)

RECURSIVE EmbedAll(_, _, _)
EmbedAll(chunks, outcomes, b) ==
    IF b > NumBatches(chunks) THEN <<>>
    ELSE EmbedResponse(Batch(chunks, b), outcomes[b])
             \o EmbedAll(chunks, outcomes, b + 1)

IxIdle ==
    [pc |-> "idle", limit |-> 0, docs |-> <<>>, ndocs |-> 0,
     total_chunks |-> 0, total_embedded |-> 0, total_upserted |-> 0,
     sent |-> <<>>]

IndexIdle ==
    /\ col = << >>
    /\ ix = IxIdle

\* No call of _mmr_select is in progress.
MmrUnused ==
    mm = [pc |-> "idle", query |-> <<0, 0>>, vecs |-> <<>>, idxs |-> <<>>,
          k |-> 0, lam |-> 0, selected |-> <<>>, remaining |-> {}]

\* A result for "nothing found" that carries a placeholder context
\* instead of the empty string.
EmptyResultPlaceholder ==
    [contexts |-> <<"(no documents)">>, sources |-> <<>>, raw |-> <<>>]

\* {"contexts": "", "sources": [], "raw": {}}
EmptyResult == [contexts |-> <<>>, sources |-> <<>>, raw |-> <<>>]

\* No call of Retriever.search is in progress.
SearchUnused ==
    sr = [pc |-> "idle", top_k |-> 0, use_mmr |-> FALSE, lam |-> 0,
          q |-> <<0, 0>>, n |-> -1, cands |-> <<>>, mmr_called |-> FALSE,
          sel |-> <<>>, result |-> EmptyResult, err |-> "none"]

\* No run of run_ingest is in progress.
IngestUnused ==
    ing = [pc |-> "idle", docs |-> <<>>, extracted |-> <<>>, fetched |-> 0,
           inserted |-> 0, doc_id |-> 0,
           last |-> [url |-> 0, extracted |-> <<>>]]

\* No call of Answerer.answer or Answerer.answer_multi is in progress.
AnIdle ==
    [pc |-> "idle", op |-> "none",
     models |-> [is_none |-> TRUE, list |-> <<>>], todo |-> <<>>,
     ret |-> EmptyResult, sources |-> <<>>, user |-> <<>>, gen |-> <<>>,
     results |-> <<>>, out |-> None, err |-> "none"]

AnswerUnused == an = AnIdle

\* The two index_recent runs.
Runners == {1, 2}

RunIdle ==
    [pc |-> "idle", docs |-> <<>>, ndocs |-> 0, total_chunks |-> 0,
     total_embedded |-> 0, total_upserted |-> 0, report |-> None]

\* No concurrent index_recent runs are in progress.
ReindexUnused ==
    rx = [limit |-> 0, run |-> [p \in Runners |-> RunIdle], log |-> <<>>]

RestUnused ==
    SearchUnused /\ IngestUnused /\ AnswerUnused /\ ReindexUnused

(***************************************************************************)
(* simple_chunk statement by statement: ck.pc is the position.             *)
(***************************************************************************)
Alphabet == {"a", "b", SP, NL}

RECURSIVE SeqsUpTo(_, _)
SeqsUpTo(S, n) ==
    IF n = 0 THEN {<<>>}
    ELSE LET shorter == SeqsUpTo(S, n - 1)
         IN  shorter \cup { Append(t, x) : t \in shorter, x \in S }

\* The spec's worked example: "a"*25 with max_chars=10, overlap=0.
ExampleText == [i \in 1..25 |-> "a"]
ExampleCall == [text |-> ExampleText, max_chars |-> 10, overlap |-> 0]

\* A call: any text up to MaxTextLen with max_chars in 1..MaxChars and an
\* overlap from -1 to beyond max_chars, or the worked example.
ChunkCallOf(t, m, o) ==
    ck = [pc |-> "entry", text |-> t, max_chars |-> m, overlap |-> o,
          paras |-> <<>>, chunks |-> <<>>, buf |-> <<>>, final |-> <<>>,
          ci |-> 0, start |-> 0]

ChunkCalled ==
    \/ \E t \in SeqsUpTo(Alphabet, MaxTextLen), m \in 1..MaxChars,
          o \in (-1)..(MaxChars + 1) : ChunkCallOf(t, m, o)
    \/ ChunkCallOf(ExampleCall.text, ExampleCall.max_chars,
                   ExampleCall.overlap)

\* if not text: return []   /   paras = [...]; chunks = []; buf = ""
ChunkEntry ==
    /\ UNCHANGED notChunk
    /\ ck.pc = "entry"
    /\ ck' = IF ck.text = <<>>
             THEN [ck EXCEPT !.pc = "done"]
             ELSE [ck EXCEPT !.pc = "paras", !.paras = Paras(ck.text)]

\* for p in paras: ...
ChunkPara ==
    /\ UNCHANGED notChunk
    /\ ck.pc = "paras"
    /\ ck.paras # <<>>
    /\ LET n == ParaIter(ck.chunks, ck.buf, Head(ck.paras),
                         ck.max_chars, ck.overlap)
       IN  ck' = [ck EXCEPT !.paras = Tail(ck.paras),
                            !.chunks = n.chunks, !.buf = n.buf]

\* if buf: chunks.append(buf)
ChunkFlush ==
    /\ UNCHANGED notChunk
    /\ ck.pc = "paras"
    /\ ck.paras = <<>>
    /\ ck' = [ck EXCEPT !.pc = "split", !.ci = 1, !.buf = <<>>,
                        !.chunks = IF ck.buf # <<>>
                                   THEN Append(ck.chunks, ck.buf)
                                   ELSE ck.chunks]

\* for c in chunks: if len(c) <= max_chars: final_chunks.append(c)
ChunkKeep ==
    /\ UNCHANGED notChunk
    /\ ck.pc = "split"
    /\ ck.ci <= Len(ck.chunks)
    /\ Len(ck.chunks[ck.ci]) <= ck.max_chars
    /\ ck' = [ck EXCEPT !.final = Append(ck.final, ck.chunks[ck.ci]),
                        !.ci = ck.ci + 1]

\* else: step = max_chars - overlap; start = 0
ChunkSplitBegin ==
    /\ UNCHANGED notChunk
    /\ ck.pc = "split"
    /\ ck.ci <= Len(ck.chunks)
    /\ Len(ck.chunks[ck.ci]) > ck.max_chars
    /\ ck' = [ck EXCEPT !.pc = "window", !.start = 0]

\* while start < len(c): piece = c[start:end]; append; start += step
ChunkWindow ==
    /\ UNCHANGED notChunk
    /\ ck.pc = "window"
    /\ ck.start < Len(ck.chunks[ck.ci])
    /\ Len(ck.final) < MaxPieces
    /\ ck' = [ck EXCEPT
                !.final = Append(ck.final,
                    WindowPiece(ck.chunks[ck.ci], ck.start, ck.max_chars)),
                !.start = ck.start + WindowStep(ck.max_chars, ck.overlap)]

\* the while condition is false: on to the next chunk
ChunkWindowEnd ==
    /\ UNCHANGED notChunk
    /\ ck.pc = "window"
    /\ ck.start >= Len(ck.chunks[ck.ci])
    /\ ck' = [ck EXCEPT !.pc = "split", !.ci = ck.ci + 1, !.start = 0]

\* return final_chunks
ChunkReturn ==
    /\ UNCHANGED notChunk
    /\ ck.pc = "split"
    /\ ck.ci > Len(ck.chunks)
    /\ ck' = [ck EXCEPT !.pc = "done"]

ChunkNext ==
    \/ ChunkEntry
    \/ ChunkPara
    \/ ChunkFlush
    \/ ChunkKeep
    \/ ChunkSplitBegin
    \/ ChunkWindow
    \/ ChunkWindowEnd
    \/ ChunkReturn

InitChunk ==
    StoreInit /\ ConcIdle /\ ChunkCalled /\ IndexIdle /\ MmrUnused
        /\ RestUnused

SpecChunk == InitChunk /\ [][ChunkNext]_vars

(***************************************************************************)
(* _cosine and _mmr_select.  Floats are exact numbers on a fixed scale:    *)
(* CosOne stands for 1.0.  The vectors offered all have norm 5 or 0 (the   *)
(* embeddings are normalized), so every non-zero pair is divided by the    *)
(* same na*nb + 1e-12 and the 1e-12 changes no comparison; a pair with a   *)
(* zero vector gives 0 / 1e-12 = 0.                                        *)
(***************************************************************************)
CosOne == 100

Dot(a, b) == a[1] * b[1] + a[2] * b[2]

\* math.sqrt(sum(x*x for x in a)), exact on the vectors offered
Norm(a) == CHOOSE n \in 0..(Dot(a, a)) : n * n = Dot(a, a)

\* dot / (na * nb + 1e-12)
Cosine(a, b) ==
    IF Norm(a) * Norm(b) = 0 THEN 0
    ELSE (Dot(a, b) * CosOne) \div (Norm(a) * Norm(b))

\* best_score = -1e9.  Scores lie within [-2.0, 2.0], so the start value
\* is below every score on any scale and is kept as the number written.
BestScoreInit == -1000000000

SetMax(S) == CHOOSE x \in S : \A y \in S : y <= x

\* list(remaining): CPython lays a set of small non-negative ints out by
\* value, so the candidates come in ascending order.
RECURSIVE SetToList(_)
SetToList(S) ==
    IF S = {} THEN <<>>
    ELSE LET m == CHOOSE x \in S : \A y \in S : x <= y
         IN  <<m>> \o SetToList(S \ {m})

\* cand_vecs[i] (ids count from 0)
CandVec(vecs, i) == vecs[i + 1]

\* A score with the two weights exchanged: lambda on the similarity to the
\* selected items, 1 - lambda on the relevance.
MmrScoreSwapped(query, vecs, selected, i, lam) ==
    IF selected = <<>>
    THEN LambdaDen * Cosine(query, CandVec(vecs, i))
    ELSE LET max_sim ==
                 SetMax({ Cosine(CandVec(vecs, i), CandVec(vecs, selected[j])) :
                            j \in 1..Len(selected) })
         IN  (LambdaDen - lam) * Cosine(query, CandVec(vecs, i))
                 - lam * max_sim

\* The score of candidate i in one pass, on the scale LambdaDen * CosOne
\* (first pass: rel_scores[i] alone).
MmrScore(query, vecs, selected, i, lam) ==
    IF selected = <<>>
    THEN LambdaDen * Cosine(query, CandVec(vecs, i))
    ELSE LET max_sim ==
                 SetMax({ Cosine(CandVec(vecs, i), CandVec(vecs, selected[j])) :
                            j \in 1..Len(selected) })
         IN  lam * Cosine(query, CandVec(vecs, i))
                 - (LambdaDen - lam) * max_sim

\* for i in list(remaining): ... if score > best_score: best_score, best_i
RECURSIVE BestOf(_, _, _, _, _, _)
BestOf(order, query, vecs, selected, lam, best) ==
    IF order = <<>> THEN best
    ELSE LET i == Head(order)
             score == MmrScore(query, vecs, selected, i, lam)
         IN  BestOf(Tail(order), query, vecs, selected, lam,
                    IF score > best.score
                    THEN [i |-> i, score |-> score]
                    ELSE best)

NoBest == -1    \* best_i = None

\* A loop that goes round once more than k allows.
MmrLoopCondOffByOne(remaining, selected, k) ==
    remaining # {} /\ Len(selected) <= k

\* while remaining and len(selected) < k
MmrLoopCond(remaining, selected, k) ==
    remaining # {} /\ Len(selected) < k

Vecs == { <<5, 0>>, <<3, 4>>, <<0, 5>>, <<-5, 0>>, <<0, 0>> }

RECURSIVE SeqsOfLen(_, _)
SeqsOfLen(S, n) ==
    IF n = 0 THEN {<<>>}
    ELSE { Append(t, x) : t \in SeqsOfLen(S, n - 1), x \in S }

\* cand_idxs names every candidate once: 0..n-1 as Retriever.search passes
\* them, or the same ids listed backwards.
IdxOrders(n) ==
    { [j \in 1..n |-> j - 1], [j \in 1..n |-> n - j] }

\* selected = []; remaining = set(cand_idxs); rel_scores = {...}
MmrCalled ==
    \E n \in 0..MaxCands :
        \E q \in Vecs, vs \in SeqsOfLen(Vecs, n), ids \in IdxOrders(n),
           k \in 0..(MaxCands + 1), l \in 0..LambdaDen :
            mm = [pc |-> "loop", query |-> q, vecs |-> vs, idxs |-> ids,
                  k |-> k, lam |-> l, selected |-> <<>>,
                  remaining |-> { ids[j] : j \in 1..n }]

ChunkUnused ==
    ck = [pc |-> "idle", text |-> <<>>, max_chars |-> 0, overlap |-> 0,
          paras |-> <<>>, chunks |-> <<>>, buf |-> <<>>, final |-> <<>>,
          ci |-> 0, start |-> 0]

notMmr == <<storeVars, concVars, ck, ixVars, restVars>>

\* One round of the while loop: the best of the remaining candidates is
\* appended to selected and removed from remaining.  remaining is not
\* empty and every score exceeds the start value of best_score, so best_i
\* is a candidate, never None.
MmrPick ==
    /\ mm.pc = "loop"
    /\ MmrLoopCond(mm.remaining, mm.selected, mm.k)
    /\ LET best == BestOf(SetToList(mm.remaining), mm.query, mm.vecs,
                          mm.selected, mm.lam,
                          [i |-> NoBest, score |-> BestScoreInit])
       IN  /\ best.i # NoBest
           /\ mm' = [mm EXCEPT !.selected = Append(mm.selected, best.i),
                               !.remaining = mm.remaining \ {best.i}]
    /\ UNCHANGED notMmr

\* return selected
MmrReturn ==
    /\ mm.pc = "loop"
    /\ ~MmrLoopCond(mm.remaining, mm.selected, mm.k)
    /\ mm' = [mm EXCEPT !.pc = "done"]
    /\ UNCHANGED notMmr

InitMmr ==
    StoreInit /\ ConcIdle /\ ChunkUnused /\ IndexIdle /\ MmrCalled
        /\ RestUnused

NextMmr == MmrPick \/ MmrReturn

SpecMmr == InitMmr /\ [][NextMmr]_vars

(***************************************************************************)
(* Retriever.search.  A distance and a score are exact numbers on the      *)
(* scale on which ScoreOne stands for 1.0, fine enough for the rounding to *)
(* 4 decimals to matter.  The collection is the index's business: a query  *)
(* answers with up to n_results candidates, nearest first, and the model   *)
(* takes any such answer.                                                  *)
(***************************************************************************)
ScoreOne == 100000

\* _mmr_select as a function: the while loop run to its end.
RECURSIVE MmrSelect(_, _, _, _, _, _)
MmrSelect(query, vecs, selected, remaining, k, lam) ==
    IF MmrLoopCond(remaining, selected, k)
    THEN LET best == BestOf(SetToList(remaining), query, vecs, selected, lam,
                            [i |-> NoBest, score |-> BestScoreInit])
         IN  MmrSelect(query, vecs, Append(selected, best.i),
                       remaining \ {best.i}, k, lam)
    ELSE selected

\* n_initial = max(self.top_k * 3, self.top_k)
NInitial(top_k) == Max(top_k * 3, top_k)

\* round(float(score), 4): to the nearest multiple of 0.0001, a half going
\* to the even one.
Round4(v) ==
    LET q == v \div 10
        r == v % 10
    IN  IF r < 5 THEN q * 10
        ELSE IF r > 5 THEN (q + 1) * 10
        ELSE IF q % 2 = 0 THEN q * 10 ELSE (q + 1) * 10

\* picked = [(docs[i], metas[i], 1 - dists[i]) for i in sel]
Picked(cands, sel) ==
    [a \in 1..Len(sel) |->
        [rec |-> cands[sel[a] + 1].rec,
         score |-> ScoreOne - cands[sel[a] + 1].dist]]

\* The list left in the order of selection.
SortDescNone(picked) == picked

\* picked.sort(key=lambda x: x[2], reverse=True): descending by score, items
\* of equal score left in the order they had.
RECURSIVE SortDesc(_)
SortDesc(picked) ==
    IF picked = <<>> THEN <<>>
    ELSE LET front == SortDesc(SubSeq(picked, 1, Len(picked) - 1))
             x == picked[Len(picked)]
             m == Cardinality({ j \in 1..Len(front) :
                                  front[j].score >= x.score })
         IN  SubSeq(front, 1, m) \o <<x>> \o SubSeq(front, m + 1, Len(front))

\* The result dict: one source and one context block per picked item, in
\* the sorted order; contexts is the list of blocks that "\n".join puts
\* together.  The record number rec stands, in a block, for the item's
\* title, url and text[:800], and in a source for the item's metadata
\* (title, url, source, date_published, chunk_index, length): the keys of a
\* source are those and "score".
Package(cands, sel, top_k) ==
    LET picked == SortDesc(Picked(cands, sel))
    IN  [contexts |-> [a \in 1..Len(picked) |-> <<"block", picked[a].rec>>],
         sources |-> [a \in 1..Len(picked) |->
                         [rec |-> picked[a].rec,
                          score |-> Round4(picked[a].score)]],
         raw |-> <<NInitial(top_k), Len(cands), Len(picked)>>]

QueryVecs  == { <<5, 0>>, <<3, 4>> }
SearchVecs == { <<5, 0>>, <<3, 4>>, <<0, 5>> }
DistVals   == { 0, 5, 15, 150000 }

NonDecreasing(ds) == \A a, b \in 1..Len(ds) : a < b => ds[a] <= ds[b]

\* Retriever(top_k, use_mmr, mmr_lambda) is built (any lambda is taken as
\* it is) and search(question) is entered.
SearchCalled ==
    \E k \in 1..MaxTopK, u \in BOOLEAN, l \in (-1)..(LambdaDen + 1) :
        sr = [pc |-> "called", top_k |-> k, use_mmr |-> u, lam |-> l,
              q |-> <<0, 0>>, n |-> -1, cands |-> <<>>,
              mmr_called |-> FALSE, sel |-> <<>>, result |-> EmptyResult,
              err |-> "none"]

notSearch == <<storeVars, concVars, ck, ixVars, mm, ing, an, rx>>

\* q_emb = self.solar.embed_query([question])[0]
SearchEmbed ==
    /\ sr.pc = "called"
    /\ \E q \in QueryVecs : sr' = [sr EXCEPT !.pc = "embedded", !.q = q]
    /\ UNCHANGED notSearch

\* ... and the embedding request fails: SolarClient.embed raises, and search
\* catches nothing.
SearchEmbedRaise ==
    /\ sr.pc = "called"
    /\ sr' = [sr EXCEPT !.pc = "raised", !.err = "embed_query"]
    /\ UNCHANGED notSearch

\* res = self.col.query(..., n_results=n_initial, ...); docs, metas, dists,
\* embs are its first (only) answer.
SearchQuery ==
    /\ sr.pc = "embedded"
    /\ \E n \in 0..Min(NInitial(sr.top_k), MaxCands) :
          \E embs \in SeqsOfLen(SearchVecs, n), ds \in SeqsOfLen(DistVals, n) :
              /\ NonDecreasing(ds)
              /\ sr' = [sr EXCEPT
                          !.pc = "queried", !.n = n,
                          !.cands = [j \in 1..n |->
                                       [rec |-> j, emb |-> embs[j],
                                        dist |-> ds[j]]]]
    /\ UNCHANGED notSearch

\* ... and the vector query fails: col.query raises, and search catches
\* nothing.
SearchQueryRaise ==
    /\ sr.pc = "embedded"
    /\ sr' = [sr EXCEPT !.pc = "raised", !.err = "col.query"]
    /\ UNCHANGED notSearch

\* if not docs: return {"contexts": "", "sources": [], "raw": {}}
SearchEmpty ==
    /\ sr.pc = "queried"
    /\ sr.cands = <<>>
    /\ sr' = [sr EXCEPT !.pc = "done", !.result = EmptyResult]
    /\ UNCHANGED notSearch

\* use_mmr and len(docs) > top_k: sel = _mmr_select(q_emb, embs, idxs, ...),
\* then the result is packaged.
SearchMmr ==
    /\ sr.pc = "queried"
    /\ sr.cands # <<>>
    /\ sr.use_mmr /\ Len(sr.cands) > sr.top_k
    /\ LET embs == [j \in 1..Len(sr.cands) |-> sr.cands[j].emb]
           sel  == MmrSelect(sr.q, embs, <<>>, 0..(Len(sr.cands) - 1),
                             sr.top_k, sr.lam)
       IN  sr' = [sr EXCEPT !.pc = "done", !.mmr_called = TRUE, !.sel = sel,
                            !.result = Package(sr.cands, sel, sr.top_k)]
    /\ UNCHANGED notSearch

\* The else branch without the slice: sel = idxs.
SearchFirstKAll ==
    /\ sr.pc = "queried"
    /\ sr.cands # <<>>
    /\ ~(sr.use_mmr /\ Len(sr.cands) > sr.top_k)
    /\ LET sel == [j \in 1..Len(sr.cands) |-> j - 1]
       IN  sr' = [sr EXCEPT !.pc = "done", !.sel = sel,
                            !.result = Package(sr.cands, sel, sr.top_k)]
    /\ UNCHANGED notSearch

\* else: sel = idxs[: self.top_k], then the result is packaged.
SearchFirstK ==
    /\ sr.pc = "queried"
    /\ sr.cands # <<>>
    /\ ~(sr.use_mmr /\ Len(sr.cands) > sr.top_k)
    /\ LET idxs == [j \in 1..Len(sr.cands) |-> j - 1]
           sel  == Slice(idxs, 0, sr.top_k)
       IN  sr' = [sr EXCEPT !.pc = "done", !.sel = sel,
                            !.result = Package(sr.cands, sel, sr.top_k)]
    /\ UNCHANGED notSearch

InitSearch ==
    StoreInit /\ ConcIdle /\ ChunkUnused /\ IndexIdle /\ MmrUnused
        /\ SearchCalled /\ IngestUnused /\ AnswerUnused /\ ReindexUnused

NextSearch ==
    \/ SearchEmbed
    \/ SearchEmbedRaise
    \/ SearchQuery
    \/ SearchQueryRaise
    \/ SearchEmpty
    \/ SearchMmr
    \/ SearchFirstK

SpecSearch == InitSearch /\ [][NextSearch]_vars

(***************************************************************************)
(* Answerer.answer and Answerer.answer_multi.  The call runs the           *)
(* Retriever.search above (sr), builds the prompt from its sources and     *)
(* calls SolarClient.generate once per model.  an.gen logs what each       *)
(* generate call did: "ok" or the exception it raised.                     *)
(***************************************************************************)
Models == {"solar-pro", "solar-mini"}

\* models = models or ["solar-pro", "solar-mini"]: None and the empty list
\* both give the default pair.
DefaultModels == <<"solar-pro", "solar-mini">>

EffectiveModels(models) ==
    IF models.is_none \/ models.list = <<>> THEN DefaultModels
    ELSE models.list

\* What embed_query / col.query raise inside search, and what generate
\* raises: RuntimeError on an HTTP error status, a requests exception on a
\* timeout or a lost connection.  All are subclasses of Exception.
RetrievalErrors == {"embed_query", "col.query"}
GenErrors == {"RuntimeError", "Timeout"}

\* The text a model generates, and f"(...) ...: {e}", the string put in its
\* place when generate raises e.
GenText(m) == <<"generated by", m>>
ErrorText(e) == <<"(error) model call failed: ", e>>

\* {"model": m, "answer": text, "sources": sources,
\*  "used_top_k": len(sources), "raw": ret.get("raw", {})}
ResultDict(m, text, r, sources) ==
    [model |-> m, answer |-> text, sources |-> sources,
     used_top_k |-> Len(sources), raw |-> r.raw]

\* The call after a generate call that returned: the result is appended
\* (answer builds the one result it returns the same way).
GenerateReturned(a) ==
    [a EXCEPT !.gen = Append(@, "ok"),
              !.results = Append(@, ResultDict(Head(a.todo),
                                               GenText(Head(a.todo)),
                                               a.ret, a.sources)),
              !.todo = Tail(@)]

\* A generate call without the try/except around it: the exception leaves
\* the call.
GenerateFailedUncaught(a, e) ==
    [a EXCEPT !.gen = Append(@, e), !.pc = "raised", !.err = e]

\* The call after a generate call that raised e: except Exception as e
\* puts the error text in the answer's place and the result is appended.
GenerateFailed(a, e) ==
    [a EXCEPT !.gen = Append(@, e),
              !.results = Append(@, ResultDict(Head(a.todo), ErrorText(e),
                                               a.ret, a.sources)),
              !.todo = Tail(@)]

\* answer(question, model) or answer_multi(question, models) is entered on
\* an Answerer whose Retriever is about to search.  The search reads the
\* question alone; which of the two operations is running, and with which
\* model arguments, is drawn when the search has returned (AnswerSearched).
AnswerCalled == an = [AnIdle EXCEPT !.pc = "search"]

\* The model arguments of a call: answer's one model, or answer_multi's
\* models, which is None or a list of up to MaxModels names.
AnswerArgs(op) ==
    IF op = "answer"
    THEN [is_none : {FALSE}, list : { <<m>> : m \in Models }]
    ELSE [is_none : {TRUE}, list : {<<>>}]
             \cup [is_none : {FALSE}, list : SeqsUpTo(Models, MaxModels)]

notAnswer == <<storeVars, concVars, ck, ixVars, mm, ing, rx>>

(***************************************************************************)
(* PromptBuilder.build_context_block, as build_messages calls it on the    *)
(* sources.  The user prompt is the question, the Evidence blocks and the  *)
(* format hints; an.user keeps the Evidence blocks.                        *)
(***************************************************************************)
PromptMaxBlocks == 5
PromptMaxBlockChars == 800

\* body = meta.get("text", "")
SourceText(meta) == IF "text" \in DOMAIN meta THEN meta.text ELSE <<>>

\* if body and len(body) > max_block_chars: body = body[:max_block_chars] + "..."
BlockBody(meta) ==
    LET body == SourceText(meta)
    IN  IF Len(body) > PromptMaxBlockChars
        THEN SubSeq(body, 1, PromptMaxBlockChars) \o <<"...">>
        ELSE body

\* The blocks of the Evidence section: one per source among the first
\* max_blocks, a head line (number, the metadata, the score) and the body
\* when there is one.  The loop breaks at the first block that would take
\* the section past max_context_chars; title and url have any length, so
\* that is after `cut` blocks for some cut.
BuildContextBlock(sources, cut) ==
    LET items == Slice(sources, 0, PromptMaxBlocks)
    IN  [i \in 1..Min(cut, Len(items)) |->
            [head |-> <<i, items[i].rec, Round4(items[i].score)>>,
             body |-> BlockBody(items[i])]]

\* ret = self.retriever.search(question); sources = ret.get("sources", []);
\* msgs = self.prompt_builder.build_messages(question, sources, ...): the
\* search has returned and its locals are gone.
AnswerSearched ==
    /\ an.pc = "search"
    /\ sr.pc = "done"
    /\ \E op \in {"answer", "answer_multi"} :
          \E ms \in AnswerArgs(op), cut \in 0..Len(sr.result.sources) :
              an' = [an EXCEPT !.pc = "generate", !.op = op, !.models = ms,
                              !.todo = IF op = "answer" THEN ms.list
                                       ELSE EffectiveModels(ms),
                              !.ret = sr.result,
                              !.sources = sr.result.sources,
                              !.user = BuildContextBlock(sr.result.sources,
                                                         cut)]
    /\ sr' = [sr EXCEPT !.pc = "idle", !.q = <<0, 0>>, !.n = -1,
                        !.cands = <<>>, !.mmr_called = FALSE,
                        !.sel = <<>>, !.result = EmptyResult]
    /\ UNCHANGED notAnswer

\* The search raised: the call is outside any try, so the exception leaves
\* answer / answer_multi as well.
AnswerSearchRaised ==
    /\ an.pc = "search"
    /\ sr.pc = "raised"
    /\ an' = [an EXCEPT !.pc = "raised", !.err = sr.err]
    /\ UNCHANGED sr
    /\ UNCHANGED notAnswer

\* try: text = self.solar.generate(...) returns.
AnswerGenerate ==
    /\ an.pc = "generate"
    /\ an.todo # <<>>
    /\ an' = GenerateReturned(an)
    /\ UNCHANGED sr
    /\ UNCHANGED notAnswer

\* ... or raises.
AnswerGenerateFail ==
    /\ an.pc = "generate"
    /\ an.todo # <<>>
    /\ \E e \in GenErrors : an' = GenerateFailed(an, e)
    /\ UNCHANGED sr
    /\ UNCHANGED notAnswer

\* return {...} (answer) / return results (answer_multi)
AnswerReturn ==
    /\ an.pc = "generate"
    /\ an.todo = <<>>
    /\ an' = [an EXCEPT !.pc = "done",
                        !.out = IF an.op = "answer" THEN an.results[1]
                                ELSE an.results]
    /\ UNCHANGED sr
    /\ UNCHANGED notAnswer

InitAnswer ==
    StoreInit /\ ConcIdle /\ ChunkUnused /\ IndexIdle /\ MmrUnused
        /\ SearchCalled /\ IngestUnused /\ AnswerCalled /\ ReindexUnused

NextAnswer ==
    \/ SearchEmbed
    \/ SearchEmbedRaise
    \/ SearchQuery
    \/ SearchQueryRaise
    \/ SearchEmpty
    \/ SearchMmr
    \/ SearchFirstK
    \/ AnswerSearched
    \/ AnswerSearchRaised
    \/ AnswerGenerate
    \/ AnswerGenerateFail
    \/ AnswerReturn

SpecAnswer == InitAnswer /\ [][NextAnswer]_vars

(***************************************************************************)
(* The program run sequentially on one SqlStore connection: documents are  *)
(* upserted, read back, and indexed by index_recent, one call at a time    *)
(* (the buttons of app/ui/app.py, the steps of app/main.py).               *)
(***************************************************************************)
NoCallRunning == ix.pc = "idle"
notStore == <<concVars, ck, ixVars, mm, restVars>>
notIndex == <<concVars, ck, mm, restVars>>

\* A last-write-wins upsert: the row found is overwritten with the new
\* document's columns.
UpsertFoundOverwrite(doc) ==
    /\ NoCallRunning
    /\ MatchingIds(rows, doc) # {}
    /\ \E i \in MatchingIds(rows, doc), t \in Times :
          /\ ret' = rows[i].id
          /\ rows' = [rows EXCEPT ![i] =
                         [NewRow(rows, doc, t) EXCEPT !.id = rows[i].id]]
    /\ arg' = [op |-> "upsert_document", doc |-> doc]
    /\ UNCHANGED notStore

\* upsert_document(doc) when the SELECT finds a row: cur.fetchone() returns
\* one of the matching rows (SQL fixes no order among them) and its id is
\* returned.
UpsertFound(doc) ==
    /\ NoCallRunning
    /\ MatchingIds(rows, doc) # {}
    /\ \E i \in MatchingIds(rows, doc) : ret' = rows[i].id
    /\ arg' = [op |-> "upsert_document", doc |-> doc]
    /\ UNCHANGED rows
    /\ UNCHANGED notStore

\* upsert_document(doc) when it finds none: INSERT with the time read from
\* the wall clock, commit, return cur.lastrowid.
UpsertInsert(doc) ==
    /\ NoCallRunning
    /\ MatchingIds(rows, doc) = {}
    /\ \E t \in Times : rows' = InsertRow(rows, doc, t)
    /\ ret' = Len(rows) + 1
    /\ arg' = [op |-> "upsert_document", doc |-> doc]
    /\ UNCHANGED notStore

FetchAll(limit) ==
    /\ NoCallRunning
    /\ ret' = FetchAllRows(rows, limit)
    /\ arg' = [op |-> "fetch_all", limit |-> limit]
    /\ UNCHANGED rows
    /\ UNCHANGED notStore

\* index_recent(limit_docs): docs = self.store.fetch_all(limit=limit_docs)
\* and the totals set to 0.
IndexStart(limit) ==
    /\ NoCallRunning
    /\ ix' = [pc |-> "running", limit |-> limit,
              docs |-> FetchAllRows(rows, limit),
              ndocs |-> Len(FetchAllRows(rows, limit)),
              total_chunks |-> 0, total_embedded |-> 0,
              total_upserted |-> 0, sent |-> <<>>]
    /\ UNCHANGED <<storeVars, col>>
    /\ UNCHANGED notIndex

\* One iteration of `for d in docs` whose chunk list is empty: continue.
IndexSkip ==
    /\ ix.pc = "running"
    /\ ix.docs # <<>>
    /\ ChunkDoc(Head(ix.docs).raw_text) = <<>>
    /\ ix' = [ix EXCEPT !.docs = Tail(ix.docs)]
    /\ UNCHANGED <<storeVars, col>>
    /\ UNCHANGED notIndex

\* One iteration that embeds and upserts: no embed_passage call raises and
\* the embeddings are as many as the chunks.
IndexDoc ==
    /\ ix.pc = "running"
    /\ ix.docs # <<>>
    /\ LET d == Head(ix.docs)
           chunks == ChunkDoc(d.raw_text)
       IN  /\ chunks # <<>>
           /\ \E outcomes \in [1..NumBatches(chunks) -> EmbedOutcomes] :
                LET embeddings == EmbedAll(chunks, outcomes, 1)
                IN  /\ \A b \in DOMAIN outcomes : outcomes[b] # "error"
                    /\ Len(embeddings) = Len(chunks)
                    /\ col' = UpsertChunks(col, d, chunks, embeddings)
                    /\ ix' = [ix EXCEPT
                                !.docs = Tail(ix.docs),
                                !.total_chunks = @ + Len(chunks),
                                !.total_embedded = @ + Len(embeddings),
                                !.total_upserted = @ + Len(chunks),
                                !.sent = @ \o [b \in DOMAIN outcomes |->
                                                  Batch(chunks, b)]]
    /\ UNCHANGED storeVars
    /\ UNCHANGED notIndex

\* One iteration that fails: an embed_passage call raises, or the safety
\* check raises RuntimeError.  Nothing in index_recent catches either, so
\* the loop ends there; ix.docs keeps the failed document and those after
\* it, and ix.sent the batches submitted up to the one that failed.
IndexRaise ==
    /\ ix.pc = "running"
    /\ ix.docs # <<>>
    /\ UNCHANGED <<storeVars, col>>
    /\ UNCHANGED notIndex
    /\ LET chunks == ChunkDoc(Head(ix.docs).raw_text)
       IN  /\ chunks # <<>>
           /\ \E outcomes \in [1..NumBatches(chunks) -> EmbedOutcomes] :
                LET failed == { b \in DOMAIN outcomes : outcomes[b] = "error" }
                    last   == IF failed = {} THEN NumBatches(chunks)
                              ELSE CHOOSE b \in failed :
                                       \A c \in failed : b <= c
                IN  /\ \/ failed # {}
                       \/ Len(EmbedAll(chunks, outcomes, 1)) # Len(chunks)
                    /\ ix' = [ix EXCEPT
                                !.pc = "raised",
                                !.sent = @ \o [b \in 1..last |->
                                                  Batch(chunks, b)]]

\* The exception leaves index_recent: the call is over and has returned
\* nothing.
IndexUnwind ==
    /\ ix.pc = "raised"
    /\ ix' = IxIdle
    /\ UNCHANGED <<storeVars, col>>
    /\ UNCHANGED notIndex

\* The loop is over: return the report.
IndexReturn ==
    /\ ix.pc = "running"
    /\ ix.docs = <<>>
    /\ ret' = [docs_processed |-> ix.ndocs,
               chunks_total |-> ix.total_chunks,
               embedded_total |-> ix.total_embedded,
               upserted_total |-> ix.total_upserted]
    /\ arg' = [op |-> "index_recent", limit |-> ix.limit]
    /\ ix' = IxIdle
    /\ UNCHANGED <<rows, col>>
    /\ UNCHANGED notIndex

Init ==
    StoreInit /\ ConcIdle /\ ChunkUnused /\ IndexIdle /\ MmrUnused
        /\ RestUnused

Next ==
    \/ \E doc \in DocInputs : UpsertFound(doc)
    \/ \E doc \in DocInputs : UpsertInsert(doc)
    \/ \E limit \in 0..MaxLimit : FetchAll(limit)
    \/ \E limit \in 0..MaxLimit : IndexStart(limit)
    \/ IndexSkip
    \/ IndexDoc
    \/ IndexRaise
    \/ IndexUnwind
    \/ IndexReturn

Spec == Init /\ [][Next]_vars

(***************************************************************************)
(* Two ingestions at once: each caller has its own SqlStore (its own       *)
(* connection to the same database file) and runs upsert_document; the     *)
(* statements of the two calls interleave.  A SELECT reads the rows        *)
(* committed so far; INSERT and commit are one step (SQLite lets one       *)
(* connection write at a time).                                            *)
(***************************************************************************)
Callers == {1, 2}
ConcDocs == { d \in DocInputs : d.title = "m2" }
notConc == <<arg, ret, ck, ixVars, mm, restVars>>

\* upsert_document(doc) is entered.
ConcCall(p, doc) ==
    /\ cpc[p] = "idle"
    /\ cpc' = [cpc EXCEPT ![p] = "select"]
    /\ cdoc' = [cdoc EXCEPT ![p] = doc]
    /\ crow' = [crow EXCEPT ![p] = None]
    /\ cret' = [cret EXCEPT ![p] = None]
    /\ UNCHANGED rows
    /\ UNCHANGED notConc

\* cur.execute("SELECT ..."); row = cur.fetchone(), and a row was found:
\* return row[0].
ConcSelectFound(p) ==
    /\ cpc[p] = "select"
    /\ MatchingIds(rows, cdoc[p]) # {}
    /\ \E i \in MatchingIds(rows, cdoc[p]) :
          /\ crow' = [crow EXCEPT ![p] = rows[i].id]
          /\ cret' = [cret EXCEPT ![p] = rows[i].id]
    /\ cpc' = [cpc EXCEPT ![p] = "done"]
    /\ UNCHANGED <<rows, cdoc>>
    /\ UNCHANGED notConc

\* ... and no row was found: go on to the INSERT.
ConcSelectNone(p) ==
    /\ cpc[p] = "select"
    /\ MatchingIds(rows, cdoc[p]) = {}
    /\ cpc' = [cpc EXCEPT ![p] = "insert"]
    /\ UNCHANGED <<rows, cdoc, crow, cret>>
    /\ UNCHANGED notConc

\* INSERT ...; commit; return cur.lastrowid.  The url column is UNIQUE (the
\* content_hash column is only indexed), so the INSERT goes through unless
\* a row with this url has been committed meanwhile.
ConcInsert(p) ==
    /\ cpc[p] = "insert"
    /\ \A i \in 1..Len(rows) : rows[i].url # cdoc[p].url
    /\ \E t \in Times : rows' = InsertRow(rows, cdoc[p], t)
    /\ cret' = [cret EXCEPT ![p] = Len(rows) + 1]
    /\ cpc' = [cpc EXCEPT ![p] = "done"]
    /\ UNCHANGED <<cdoc, crow>>
    /\ UNCHANGED notConc

\* ... and when one has: sqlite3.IntegrityError (UNIQUE constraint failed:
\* documents.url), which upsert_document does not catch.
ConcInsertFails(p) ==
    /\ cpc[p] = "insert"
    /\ \E i \in 1..Len(rows) : rows[i].url = cdoc[p].url
    /\ cpc' = [cpc EXCEPT ![p] = "failed"]
    /\ UNCHANGED <<rows, cdoc, crow, cret>>
    /\ UNCHANGED notConc

\* The caller takes the result (or the exception) and is ready for its
\* next document.
ConcNext(p) ==
    /\ cpc[p] \in {"done", "failed"}
    /\ cpc' = [cpc EXCEPT ![p] = "idle"]
    /\ UNCHANGED <<rows, cdoc, crow, cret>>
    /\ UNCHANGED notConc

NextConc ==
    \/ \E p \in Callers, doc \in ConcDocs : ConcCall(p, doc)
    \/ \E p \in Callers : ConcSelectFound(p)
    \/ \E p \in Callers : ConcSelectNone(p)
    \/ \E p \in Callers : ConcInsert(p)
    \/ \E p \in Callers : ConcInsertFails(p)
    \/ \E p \in Callers : ConcNext(p)

SpecConc == Init /\ [][NextConc]_vars

(***************************************************************************)
(* The crawler's text normalization and fingerprint, and run_ingest: the   *)
(* documents fetch_rss_docs returns are upserted one after the other.      *)
(***************************************************************************)
\* re.sub(r"\s+", " ", text): every run of whitespace becomes one space.
RECURSIVE CollapseSpace(_)
CollapseSpace(s) ==
    IF s = <<>> THEN <<>>
    ELSE IF IsSpace(Head(s)) THEN <<SP>> \o CollapseSpace(LStrip(s))
    ELSE <<Head(s)>> \o CollapseSpace(Tail(s))

\* A normalization that trims the ends and leaves the inner runs alone.
NormalizeTextStripOnly(text) == Strip(text)

\* _normalize_text: re.sub(r"\s+", " ", text).strip()
NormalizeText(text) == Strip(CollapseSpace(text))

\* _content_hash: the sha256 of the text (taken to be free of collisions:
\* the digest stands for the text it was computed from).
ContentHash(text) == <<"sha256", text>>

ExtractAlphabet == {"a", SP, NL}
ExtractedTexts == SeqsUpTo(ExtractAlphabet, MaxExtractLen)
FeedSizes == {0, 1, 2}

\* `if not extracted: continue`, `if len(text) < 400: continue`
CrawlKeep(e) ==
    /\ e.extracted # <<>>
    /\ Len(NormalizeText(e.extracted)) >= CrawlMinChars

\* The dict packaged for one entry.
CrawlDoc(e) ==
    LET text == NormalizeText(e.extracted)
    IN  [url |-> e.url, title |-> "title", source |-> "feed",
         date_published |-> "date", raw_text |-> text,
         content_hash |-> ContentHash(text), lang |-> "en"]

notIngest == <<concVars, ck, ixVars, mm, sr, an, rx>>

\* store = SqlStore(...); docs = fetch_rss_docs(...); inserted = 0
\* (ing.extracted keeps, next to each doc, the text it was made from, and
\* ing.last the url and text of the doc upserted last).
IngestFetch ==
    /\ ing.pc = "idle"
    /\ arg = NoCall
    /\ \E n \in FeedSizes :
          \E entries \in SeqsOfLen([url : Urls, extracted : ExtractedTexts], n) :
              LET kept == SelectSeq(entries, CrawlKeep)
              IN  ing' = [pc |-> "running",
                          docs |-> [j \in 1..Len(kept) |-> CrawlDoc(kept[j])],
                          extracted |->
                              [j \in 1..Len(kept) |-> kept[j].extracted],
                          fetched |-> Len(kept), inserted |-> 0,
                          doc_id |-> 0,
                          last |-> [url |-> 0, extracted |-> <<>>]]
    /\ UNCHANGED storeVars
    /\ UNCHANGED notIngest

\* One iteration of `for d in docs` in which upsert_document finds a row and
\* returns its id; `if doc_id: inserted += 1`.
IngestStoreFound ==
    /\ ing.pc = "running"
    /\ ing.docs # <<>>
    /\ MatchingIds(rows, Head(ing.docs)) # {}
    /\ \E i \in MatchingIds(rows, Head(ing.docs)) :
          ing' = [ing EXCEPT
                    !.docs = Tail(ing.docs),
                    !.extracted = Tail(ing.extracted),
                    !.last = [url |-> Head(ing.docs).url,
                              extracted |-> Head(ing.extracted)],
                    !.doc_id = rows[i].id,
                    !.inserted = IF Truthy(rows[i].id) THEN @ + 1 ELSE @]
    /\ UNCHANGED storeVars
    /\ UNCHANGED notIngest

\* ... in which upsert_document inserts the document and returns the new id.
IngestStoreInsert ==
    /\ ing.pc = "running"
    /\ ing.docs # <<>>
    /\ MatchingIds(rows, Head(ing.docs)) = {}
    /\ \E t \in Times : rows' = InsertRow(rows, Head(ing.docs), t)
    /\ ing' = [ing EXCEPT
                 !.docs = Tail(ing.docs),
                 !.extracted = Tail(ing.extracted),
                 !.last = [url |-> Head(ing.docs).url,
                              extracted |-> Head(ing.extracted)],
                 !.doc_id = Len(rows) + 1,
                 !.inserted = IF Truthy(Len(rows) + 1) THEN @ + 1 ELSE @]
    /\ UNCHANGED <<arg, ret>>
    /\ UNCHANGED notIngest

\* print(f"[INGEST] new docs inserted: {inserted} / fetched: {len(docs)}")
IngestReturn ==
    /\ ing.pc = "running"
    /\ ing.docs = <<>>
    /\ arg' = [op |-> "run_ingest"]
    /\ ret' = [inserted |-> ing.inserted, fetched |-> ing.fetched]
    /\ ing' = [ing EXCEPT !.pc = "idle"]
    /\ UNCHANGED rows
    /\ UNCHANGED notIngest

NextIngest ==
    \/ IngestFetch
    \/ IngestStoreFound
    \/ IngestStoreInsert
    \/ IngestReturn

SpecIngest == Init /\ [][NextIngest]_vars

(***************************************************************************)
(* Two index_recent runs, with the same limit_docs, on one store and one   *)
(* collection.  The store holds documents and is not written; each run's   *)
(* col.upsert is one step, and the steps of the two runs interleave.       *)
(* rx.log lists, in order, the run that made each upsert.                  *)
(***************************************************************************)
\* The table after upsert_document has been called on each doc in turn.
RECURSIVE StoreAll(_, _, _)
StoreAll(tbl, docs, ts) ==
    IF docs = <<>> THEN tbl
    ELSE StoreAll(IF MatchingIds(tbl, Head(docs)) # {} THEN tbl
                  ELSE InsertRow(tbl, Head(docs), Head(ts)),
                  Tail(docs), Tail(ts))

\* The store as earlier ingests left it, and the limit both runs are given.
ReindexCalled ==
    /\ \E n \in 0..MaxUrls :
          \E ds \in SeqsOfLen(DocInputs, n), ts \in SeqsOfLen(Times, n) :
              rows = StoreAll(<<>>, ds, ts)
    /\ arg = NoCall
    /\ ret = None
    /\ \E limit \in 0..MaxLimit :
          rx = [limit |-> limit, run |-> [p \in Runners |-> RunIdle],
                log |-> <<>>]

notReindex == <<storeVars, concVars, ck, ix, mm, sr, ing, an>>

\* docs = self.store.fetch_all(limit=limit_docs) and the totals set to 0.
ReindexStart(p) ==
    /\ rx.run[p].pc = "idle"
    /\ rx' = [rx EXCEPT !.run[p] =
                 [RunIdle EXCEPT !.pc = "running",
                                 !.docs = FetchAllRows(rows, rx.limit),
                                 !.ndocs = Len(FetchAllRows(rows, rx.limit))]]
    /\ UNCHANGED col
    /\ UNCHANGED notReindex

\* One iteration of `for d in docs` whose chunk list is empty: continue.
ReindexSkip(p) ==
    /\ rx.run[p].pc = "running"
    /\ rx.run[p].docs # <<>>
    /\ ChunkDoc(Head(rx.run[p].docs).raw_text) = <<>>
    /\ rx' = [rx EXCEPT !.run[p].docs = Tail(@)]
    /\ UNCHANGED col
    /\ UNCHANGED notReindex

\* One iteration that embeds and upserts.
ReindexDoc(p) ==
    /\ rx.run[p].pc = "running"
    /\ rx.run[p].docs # <<>>
    /\ LET d == Head(rx.run[p].docs)
           chunks == ChunkDoc(d.raw_text)
       IN  /\ chunks # <<>>
           /\ \E outcomes \in [1..NumBatches(chunks) -> EmbedOutcomes] :
                LET embeddings == EmbedAll(chunks, outcomes, 1)
                IN  /\ \A b \in DOMAIN outcomes : outcomes[b] # "error"
                    /\ Len(embeddings) = Len(chunks)
                    /\ col' = UpsertChunks(col, d, chunks, embeddings)
                    /\ rx' = [rx EXCEPT
                                !.run[p].docs = Tail(@),
                                !.run[p].total_chunks = @ + Len(chunks),
                                !.run[p].total_embedded = @ + Len(embeddings),
                                !.run[p].total_upserted = @ + Len(chunks),
                                !.log = Append(@, p)]
    /\ UNCHANGED notReindex

\* One iteration that fails (an embed_passage call raises, or the safety
\* check does): the run ends there.
ReindexRaise(p) ==
    /\ rx.run[p].pc = "running"
    /\ rx.run[p].docs # <<>>
    /\ rx' = [rx EXCEPT !.run[p].pc = "raised"]
    /\ UNCHANGED col
    /\ UNCHANGED notReindex
    /\ LET chunks == ChunkDoc(Head(rx.run[p].docs).raw_text)
       IN  /\ chunks # <<>>
           /\ \E outcomes \in [1..NumBatches(chunks) -> EmbedOutcomes] :
                \/ \E b \in DOMAIN outcomes : outcomes[b] = "error"
                \/ Len(EmbedAll(chunks, outcomes, 1)) # Len(chunks)

\* The loop is over: return the report.
ReindexReturn(p) ==
    /\ rx.run[p].pc = "running"
    /\ rx.run[p].docs = <<>>
    /\ rx' = [rx EXCEPT
                !.run[p].pc = "done",
                !.run[p].report =
                    [docs_processed |-> rx.run[p].ndocs,
                     chunks_total |-> rx.run[p].total_chunks,
                     embedded_total |-> rx.run[p].total_embedded,
                     upserted_total |-> rx.run[p].total_upserted]]
    /\ UNCHANGED col
    /\ UNCHANGED notReindex

InitReindex ==
    ReindexCalled /\ ConcIdle /\ ChunkUnused /\ IndexIdle /\ MmrUnused
        /\ SearchUnused /\ IngestUnused /\ AnswerUnused

NextReindex ==
    \/ \E p \in Runners : ReindexStart(p)
    \/ \E p \in Runners : ReindexSkip(p)
    \/ \E p \in Runners : ReindexDoc(p)
    \/ \E p \in Runners : ReindexRaise(p)
    \/ \E p \in Runners : ReindexReturn(p)

SpecReindex == InitReindex /\ [][NextReindex]_vars

(***************************************************************************)
(* index_recent on a store of two documents, the newer one with any text   *)
(* of paragraphs up to MaxTextLen (upsert_document stores whatever         *)
(* raw_text it is given).                                                  *)
(***************************************************************************)
InitIndexTexts ==
    /\ \E older \in { d \in DocInputs : d.url = 1 /\ d.content_hash = "h1" },
          t \in SeqsUpTo({"a", "b", NL}, MaxTextLen) :
          rows = StoreAll(<<>>,
                          <<older,
                            [url |-> 2, content_hash |-> "h2", title |-> "m1",
                             source |-> "m1", date_published |-> "m1",
                             raw_text |-> t, lang |-> "m1"]>>,
                          <<0, 0>>)
    /\ arg = NoCall
    /\ ret = None
    /\ ConcIdle /\ ChunkUnused /\ IndexIdle /\ MmrUnused /\ RestUnused

NextIndexTexts ==
    \/ \E limit \in 0..MaxLimit : IndexStart(limit)
    \/ IndexSkip
    \/ IndexDoc
    \/ IndexRaise
    \/ IndexUnwind
    \/ IndexReturn

SpecIndexTexts == InitIndexTexts /\ [][NextIndexTexts]_vars

(***************************************************************************)
(* Properties of the store and of the indexer                              *)
(***************************************************************************)
\* C1: after any sequence of sequential upsert_document calls from an empty
\* store, no two rows share a url and no two rows share a content_hash.
StoreDedup ==
    \A i, j \in 1..Len(rows) :
        i # j => /\ rows[i].url # rows[j].url
                 /\ rows[i].content_hash # rows[j].content_hash

\* C1 witness: two rows are stored and the last upsert, a new url carrying
\* the content_hash of a stored row, was answered with that row's id.
StoreDedupWitness ==
    /\ Len(rows) = 2
    /\ arg.op = "upsert_document"
    /\ ret \in 1..Len(rows)
    /\ rows[ret].content_hash = arg.doc.content_hash
    /\ rows[ret].url # arg.doc.url

\* C2: an upsert whose document has the url or the content_hash of the
\* document of the call before it (so the second of two such calls) returns
\* the id of an already stored row, signals inserted=false, and leaves the
\* row count as it was.  The caller reads "inserted" off the returned value
\* by its truth value (run_ingest: `if doc_id: inserted += 1`).
DuplicateSignalled ==
    [][\A d \in DocInputs :
         ( /\ UpsertFound(d) \/ UpsertInsert(d)
           /\ arg.op = "upsert_document"
           /\ \/ arg.doc.url = d.url
              \/ arg.doc.content_hash = d.content_hash )
         => /\ ret' \in { rows[i].id : i \in MatchingIds(rows, d) }
            /\ ~Truthy(ret')
            /\ Len(rows') = Len(rows)]_vars

\* C3: two upsert_document calls that run at the same time on documents
\* sharing a url or a content_hash behave as if each lookup-then-insert were
\* atomic: the table never holds two rows with one url or two rows with one
\* content_hash, and neither call fails.
ConcurrentUpsertAtomic ==
    /\ \A i, j \in 1..Len(rows) :
          i # j => /\ rows[i].url # rows[j].url
                   /\ rows[i].content_hash # rows[j].content_hash
    /\ \A p \in Callers : cpc[p] # "failed"

\* C4: once inserted, a row keeps all its columns and its place: every
\* step of upsert_document, fetch_all and index_recent leaves the rows
\* already stored as they are and removes none.
RowsImmutable ==
    [][/\ Len(rows') >= Len(rows)
       /\ SubSeq(rows', 1, Len(rows)) = rows]_vars

\* C4 witness: an upsert with the url of a stored row but another title and
\* raw_text has returned that row's id, and the collection has been indexed.
RowsImmutableWitness ==
    /\ arg.op = "upsert_document"
    /\ ret \in 1..Len(rows)
    /\ rows[ret].url = arg.doc.url
    /\ rows[ret].title # arg.doc.title
    /\ rows[ret].raw_text # arg.doc.raw_text
    /\ DOMAIN col # {}

\* C8: a document whose indexing fails does not keep the later documents of
\* the batch from being indexed: index_recent never ends on a failure with
\* documents after the failed one left unprocessed.
IndexFailureConfined ==
    ix.pc = "raised" => Len(ix.docs) <= 1

\* The running index_recent call repeats the last call that returned: same
\* limit_docs, and no store call returned in between.
Reindexing ==
    /\ ix.pc = "running"
    /\ arg = [op |-> "index_recent", limit |-> ix.limit]

\* C9: an index_recent call that repeats the previous one on an unchanged
\* store adds no record id to the collection, and reports the chunks_total
\* the previous call reported.
IdempotentIndexing ==
    [][Reindexing =>
         /\ DOMAIN col' = DOMAIN col
         /\ ix'.pc = "idle" => ret'.chunks_total = ret.chunks_total]_vars

\* C9 witness: the repeated call has upserted chunks again.
IdempotentIndexingWitness ==
    /\ Reindexing
    /\ ret.chunks_total > 0
    /\ ix.total_upserted = ret.chunks_total
    /\ ix.docs = <<>>

\* The words of a text: its maximal runs of non-whitespace characters, in
\* order.  Two texts differ only in whitespace layout when they have the
\* same words.
RECURSIVE WordsFrom(_, _)
WordsFrom(s, cur) ==
    IF s = <<>> THEN (IF cur = <<>> THEN <<>> ELSE <<cur>>)
    ELSE IF IsSpace(Head(s))
         THEN (IF cur = <<>> THEN <<>> ELSE <<cur>>) \o WordsFrom(Tail(s), <<>>)
         ELSE WordsFrom(Tail(s), Append(cur, Head(s)))

Words(s) == WordsFrom(s, <<>>)

\* C14: the text x of the document being stored and any text y with the same
\* words normalize to the same string and hash to the same fingerprint, and
\* the normalized string keeps the words; so when a stored row came from a
\* text with the words of x, the upsert adds no row and returns that row's
\* id, whatever the two urls.
WhitespaceDedup ==
    [][(ing.pc = "running" /\ ing.docs # <<>> /\ ing'.docs = Tail(ing.docs)) =>
         LET x == Head(ing.extracted)
         IN  /\ Words(NormalizeText(x)) = Words(x)
             /\ \A y \in ExtractedTexts :
                   Words(y) = Words(x) =>
                      /\ NormalizeText(y) = NormalizeText(x)
                      /\ ContentHash(NormalizeText(y))
                            = ContentHash(NormalizeText(x))
             /\ \A i \in 1..Len(rows) :
                   Words(rows[i].raw_text) = Words(x) =>
                      /\ rows' = rows
                      /\ ing'.doc_id = rows[i].id]_vars

\* C14 witness: two documents made from texts that differ in whitespace
\* only (inner runs and ends), fetched under two urls, have both been
\* upserted and one row is stored.
WhitespaceDedupWitness ==
    /\ ing.pc = "running" /\ ing.docs = <<>> /\ ing.fetched = 2
    /\ Len(rows) = 1
    /\ ing.doc_id = rows[1].id
    /\ rows[1].raw_text = <<"a", SP, "a">>
    /\ ing.last.extracted = <<"a", NL, "a">>
    /\ ing.last.url # rows[1].url

\* C23: every record of the collection, stored under the id of document
\* doc_id and chunk number i, holds the text of chunk i of that document,
\* chunk_index i, the length of that text, and the embedding the service
\* computed for that very text; so a document whose embeddings do not match
\* its chunks one to one has not been upserted.
EmbeddingsAligned ==
    \A id \in DOMAIN col :
        LET d      == rows[id[1]]
            chunks == ChunkDoc(d.raw_text)
            r      == col[id]
        IN  /\ id[2] + 1 \in 1..Len(chunks)
            /\ r.document = chunks[id[2] + 1]
            /\ r.metadata.doc_id = d.id
            /\ r.metadata.chunk_index = id[2]
            /\ r.metadata.length = Len(r.document)
            /\ r.embedding = EmbedVec(r.document)

\* The batches put end to end.
RECURSIVE Flatten(_)
Flatten(batches) ==
    IF batches = <<>> THEN <<>> ELSE Head(batches) \o Flatten(Tail(batches))

\* The chunks of a text that are at least min_chunk_chars long, in order.
Survivors(text) ==
    LET all == SimpleChunk(text, IxMaxChars, IxOverlap)
        F[j \in 0..Len(all)] ==
            IF j = 0 THEN <<>>
            ELSE IF Len(all[j]) >= IxMinChunk THEN Append(F[j - 1], all[j])
            ELSE F[j - 1]
    IN  F[Len(all)]

\* C24: no chunk shorter than min_chunk_chars is ever in a batch submitted
\* to the embedding service or in a record of the collection, and the
\* records of a document are numbered from 0 without a gap; a document that
\* is embedded and upserted is submitted as its chunks of sufficient length,
\* in order, and stored as those chunks numbered 0..n-1; a document none of
\* whose chunks is long enough causes no submission and no upsert, and the
\* run goes on with the documents after it.
MinChunkFilter ==
    /\ [](/\ \A b \in 1..Len(ix.sent) : \A j \in 1..Len(ix.sent[b]) :
                 Len(ix.sent[b][j]) >= IxMinChunk
          /\ \A id \in DOMAIN col :
                 /\ Len(col[id].document) >= IxMinChunk
                 /\ \A j \in 0..id[2] : <<id[1], j>> \in DOMAIN col)
    /\ [][(ix.pc = "running" /\ ix.docs # <<>> /\ ix'.pc = "running") =>
            LET d    == Head(ix.docs)
                surv == Survivors(d.raw_text)
                new  == SubSeq(ix'.sent, Len(ix.sent) + 1, Len(ix'.sent))
            IN  /\ ix'.docs = Tail(ix.docs)
                /\ Flatten(new) = surv
                /\ surv = <<>> => col' = col
                /\ \A i \in 1..Len(surv) :
                      /\ <<d.id, i - 1>> \in DOMAIN col'
                      /\ col'[<<d.id, i - 1>>].document = surv[i]
                      /\ col'[<<d.id, i - 1>>].metadata.chunk_index = i - 1
                /\ <<d.id, Len(surv)>> \notin DOMAIN col']_vars

\* C24 witness: the newer document's text "a\nbab" chunks into "a" and
\* "bab"; "a" was dropped, "bab" was submitted and is stored as chunk 0, the
\* document's only record, and the run went on to upsert the older document.
MinChunkFilterWitness ==
    /\ Len(rows) = 2
    /\ rows[2].raw_text = <<"a", NL, "b", "a", "b">>
    /\ ix.pc = "running" /\ ix.docs = <<>>
    /\ <<2, 0>> \in DOMAIN col
    /\ col[<<2, 0>>].document = <<"b", "a", "b">>
    /\ <<2, 1>> \notin DOMAIN col
    /\ <<1, 0>> \in DOMAIN col
    /\ ix.sent[1] = <<<<"b", "a", "b">>>>

\* C25: the number run_ingest reports as inserted is the number of rows the
\* run added to the store (the run started on the empty store, so that is
\* the number of rows): a fetched document that duplicates a stored row is
\* not counted.
IngestCountsInserted ==
    arg.op = "run_ingest" => ret.inserted = Len(rows)

\* The position in the table, i.e. in the order of insertion, of the row a
\* returned document was read from.
RowPos(d) == CHOOSE j \in 1..Len(rows) : rows[j].id = d.id

\* C15: fetch_all(limit), limit a count >= 0, returns min(limit, row count)
\* documents; each is a stored row, no two are the same row, a row inserted
\* later comes before one inserted earlier, and every row left out was
\* inserted before every row returned.
FetchAllNewestFirst ==
    arg.op = "fetch_all" =>
        /\ Len(ret) = Min(arg.limit, Len(rows))
        /\ \A a \in 1..Len(ret) :
               \E j \in 1..Len(rows) : ret[a] = RowDict(rows[j])
        /\ \A a, b \in 1..Len(ret) : a < b => RowPos(ret[a]) > RowPos(ret[b])
        /\ \A j \in 1..Len(rows) :
               (\A a \in 1..Len(ret) : RowPos(ret[a]) # j) =>
                   \A a \in 1..Len(ret) : j < RowPos(ret[a])

\* C15 witness: two rows are stored and fetch_all(1) has returned the one
\* inserted last, leaving out the first.
FetchAllNewestFirstWitness ==
    /\ arg.op = "fetch_all" /\ arg.limit = 1
    /\ Len(rows) = 2
    /\ Len(ret) = 1
    /\ ret[1].id = rows[2].id
    /\ ret[1].url = rows[2].url

\* One index_recent run by itself, from an empty collection, every
\* embed_passage call answering in full.
RECURSIVE IndexAll(_, _)
IndexAll(c, docs) ==
    IF docs = <<>> THEN c
    ELSE LET d == Head(docs)
             chunks == ChunkDoc(d.raw_text)
         IN  IndexAll(UpsertChunks(c, d, chunks,
                                   [i \in 1..Len(chunks) |->
                                       EmbedVec(chunks[i])]),
                      Tail(docs))

\* The id, text and metadata of every record of a collection.
RecordData(c) ==
    { [id |-> id, document |-> c[id].document, metadata |-> c[id].metadata] :
        id \in DOMAIN c }

\* The (document row, chunk number) pairs a run over docs has to store.
ChunkSlots(docs) ==
    { <<j, i>> \in (1..Len(docs)) \X (1..MaxTextLen) :
        i <= Len(ChunkDoc(docs[j].raw_text)) }

\* C18: while two index_recent runs over the same unchanged documents
\* interleave their upserts, every record of the collection is, id, text
\* and metadata, a record the single run produces; once both runs have
\* returned the collection holds exactly the single run's records, one per
\* chunk of each document and no id twice.
ConcurrentReindexSameRecords ==
    LET docs   == FetchAllRows(rows, rx.limit)
        single == IndexAll(<< >>, docs)
    IN  /\ RecordData(col) \subseteq RecordData(single)
        /\ (\A p \in Runners : rx.run[p].pc = "done") =>
              /\ RecordData(col) = RecordData(single)
              /\ Cardinality(DOMAIN col) = Cardinality(ChunkSlots(docs))
              /\ \A s \in ChunkSlots(docs) :
                    \E id \in DOMAIN col :
                        /\ col[id].document
                              = ChunkDoc(docs[s[1]].raw_text)[s[2]]
                        /\ col[id].metadata.doc_id = docs[s[1]].id
                        /\ col[id].metadata.url = docs[s[1]].url
                        /\ col[id].metadata.chunk_index = s[2] - 1

\* C18 witness: both runs have returned after upserting the same two
\* documents alternately, and the collection holds the chunks of both.
ConcurrentReindexWitness ==
    /\ \A p \in Runners : rx.run[p].pc = "done"
    /\ rx.log = <<1, 2, 2, 1>>
    /\ Cardinality(DOMAIN col) = 6
    /\ rx.run[1].report.upserted_total = 6
    /\ rx.run[2].report.upserted_total = 6

(***************************************************************************)
(* Properties of _mmr_select                                               *)
(***************************************************************************)
\* C10: _mmr_select returns a list without a repeated id, of ids of the
\* candidate list only, of length exactly min(k, number of candidates), and
\* so never longer than k.
MmrCardinality ==
    /\ Len(mm.selected) <= mm.k
    /\ mm.pc = "done" =>
          /\ \A a, b \in 1..Len(mm.selected) :
                a # b => mm.selected[a] # mm.selected[b]
          /\ \A a \in 1..Len(mm.selected) :
                \E j \in 1..Len(mm.idxs) : mm.idxs[j] = mm.selected[a]
          /\ Len(mm.selected) = Min(mm.k, Len(mm.idxs))

\* C10 witness: two of three candidates were selected with a lambda
\* strictly between 0 and 1, and the second pick is not the second most
\* relevant candidate.
MmrCardinalityWitness ==
    /\ mm.pc = "done"
    /\ Len(mm.idxs) = 3 /\ mm.k = 2 /\ Len(mm.selected) = 2
    /\ mm.lam > 0 /\ mm.lam < LambdaDen
    /\ \E i \in mm.remaining :
          Cosine(mm.query, CandVec(mm.vecs, i))
              > Cosine(mm.query, CandVec(mm.vecs, mm.selected[2]))

\* rel_scores[i]
Relevance(i) == Cosine(mm.query, CandVec(mm.vecs, i))

\* C11: with lambda = 1 the ids come out in descending order of relevance:
\* each selected id is at least as relevant as every id selected after it
\* and as every candidate not selected, whatever its similarity to the ids
\* already selected.
MmrLambdaOneByRelevance ==
    mm.lam = LambdaDen =>
        /\ \A a, b \in 1..Len(mm.selected) :
              a < b => Relevance(mm.selected[a]) >= Relevance(mm.selected[b])
        /\ \A a \in 1..Len(mm.selected) : \A i \in mm.remaining :
              Relevance(mm.selected[a]) >= Relevance(i)

\* C11 witness: with lambda = 1 the second pick is a copy of the first
\* (similarity 1.0 to it), taken before a less relevant candidate that is
\* less similar to the first pick.
MmrLambdaOneWitness ==
    /\ mm.pc = "done" /\ mm.lam = LambdaDen
    /\ Len(mm.selected) = 2
    /\ CandVec(mm.vecs, mm.selected[1]) = CandVec(mm.vecs, mm.selected[2])
    /\ Relevance(mm.selected[1]) > 0
    /\ \E i \in mm.remaining :
          /\ Relevance(i) < Relevance(mm.selected[2])
          /\ Cosine(CandVec(mm.vecs, i), CandVec(mm.vecs, mm.selected[1]))
                < CosOne

\* The place of id x in the list cand_idxs.
InputPos(x) == CHOOSE j \in 1..Len(mm.idxs) : mm.idxs[j] = x

\* C19: each pick attains the maximum score among the candidates not yet
\* selected, and among the candidates attaining it is the one that comes
\* first in the input order of cand_idxs.
MmrTieBreakInputOrder ==
    [][Len(mm'.selected) = Len(mm.selected) + 1 =>
         LET x == mm'.selected[Len(mm'.selected)]
             Score(i) == MmrScore(mm.query, mm.vecs, mm.selected, i, mm.lam)
         IN  /\ x \in mm.remaining
             /\ \A y \in mm.remaining :
                   /\ Score(y) <= Score(x)
                   /\ Score(y) = Score(x) => InputPos(x) <= InputPos(y)]_vars

\* The same with the ids of cand_idxs in ascending order, as Retriever.search
\* passes them.
MmrTieBreakAscendingIds ==
    [][(Len(mm'.selected) = Len(mm.selected) + 1
          /\ \A j \in 1..Len(mm.idxs) : mm.idxs[j] = j - 1) =>
         LET x == mm'.selected[Len(mm'.selected)]
             Score(i) == MmrScore(mm.query, mm.vecs, mm.selected, i, mm.lam)
         IN  /\ x \in mm.remaining
             /\ \A y \in mm.remaining :
                   /\ Score(y) <= Score(x)
                   /\ Score(y) = Score(x) => InputPos(x) <= InputPos(y)]_vars

(***************************************************************************)
(* Properties of Retriever.search                                          *)
(***************************************************************************)
\* C12: the scores of the sources of a search result never increase from
\* one source to the next, with MMR or without it, rounding included.
SearchScoresDescending ==
    sr.pc = "done" =>
        \A a, b \in 1..Len(sr.result.sources) :
            a < b => sr.result.sources[a].score >= sr.result.sources[b].score

\* C12 witness: MMR selected a less similar candidate before a more similar
\* one, the sources present them the other way round, and the rounding has
\* changed a score.
SearchScoresWitness ==
    /\ sr.pc = "done" /\ sr.mmr_called
    /\ Len(sr.sel) = 2
    /\ sr.cands[sr.sel[1] + 1].dist > sr.cands[sr.sel[2] + 1].dist
    /\ sr.result.sources[1].rec = sr.cands[sr.sel[2] + 1].rec
    /\ \E a \in 1..2 :
          sr.result.sources[a].score
              # ScoreOne - sr.cands[sr.result.sources[a].rec].dist

\* C13: a Retriever built with an mmr_lambda outside [0, 1] selects nothing
\* by MMR: its search does not return sources chosen by _mmr_select with
\* that lambda.
LambdaOutOfRangeRejected ==
    (sr.lam < 0 \/ sr.lam > LambdaDen) =>
        ~(sr.pc = "done" /\ sr.mmr_called /\ sr.result.sources # <<>>)

\* C16: when the index returns no candidate, search returns the empty
\* result (no sources, empty context) without raising and without calling
\* _mmr_select.
SearchEmptyPool ==
    (sr.n = 0 /\ sr.pc # "queried") =>
        /\ sr.pc = "done"
        /\ sr.result.sources = <<>>
        /\ sr.result.contexts = <<>>
        /\ ~sr.mmr_called

\* C16 witness: a search with MMR switched on has returned after the index
\* gave no candidate.
SearchEmptyPoolWitness ==
    /\ sr.pc = "done" /\ sr.n = 0 /\ sr.use_mmr

\* C22: a search that has returned called _mmr_select exactly when use_mmr
\* is true and more than top_k candidates came back; otherwise the selection
\* is the first min(top_k, returned) candidates in the order the index
\* returned them; and in every case at most top_k sources are returned.
SearchMmrBypass ==
    sr.pc = "done" =>
        /\ sr.mmr_called <=> (sr.use_mmr /\ sr.n > sr.top_k)
        /\ ~sr.mmr_called =>
              sr.sel = [j \in 1..Min(sr.top_k, sr.n) |-> j - 1]
        /\ Len(sr.sel) <= sr.top_k
        /\ Len(sr.result.sources) <= sr.top_k

\* C22 witness: use_mmr is true and the index returned exactly top_k = 2
\* candidates; MMR was not called and both were selected in the index's
\* order.
SearchMmrBypassWitness ==
    /\ sr.pc = "done" /\ sr.use_mmr
    /\ sr.top_k = 2 /\ sr.n = 2
    /\ ~sr.mmr_called
    /\ sr.sel = <<0, 1>>
    /\ Len(sr.result.sources) = 2

\* The length-capped text of the passage a source stands for, as
\* Retriever.search puts it in its context block.
PassageText(src) == <<"text", src.rec>>

\* C26: when the search selected at least one passage, the user prompt
\* handed to generate contains, for every selected passage, a block whose
\* body is that passage's (length-capped) text.  (Stated for the prompts in
\* which every source has its block, none left out for the section's
\* length.)
PromptGrounded ==
    (/\ an.pc \in {"generate", "done"}
     /\ an.ret.sources # <<>>
     /\ Len(an.user) = Len(an.ret.sources)) =>
        \A i \in 1..Len(an.ret.sources) :
            \E b \in 1..Len(an.user) :
                an.user[b].body = PassageText(an.ret.sources[i])

(***************************************************************************)
(* Properties of simple_chunk                                              *)
(***************************************************************************)
Lengths(seqs) == [i \in 1..Len(seqs) |-> Len(seqs[i])]

ValidChunkConfig == ck.max_chars >= 1 /\ ck.overlap < ck.max_chars

\* C5: with max_chars >= 1 and overlap < max_chars every chunk that
\* simple_chunk emits has length <= max_chars, and "a"*25 with max_chars=10,
\* overlap=0 returns exactly three chunks of lengths 10, 10, 5.
ChunkBound ==
    /\ ValidChunkConfig =>
          \A i \in 1..Len(ck.final) : Len(ck.final[i]) <= ck.max_chars
    /\ (ck.pc = "done" /\ ck.text = ExampleText /\ ck.max_chars = 10
            /\ ck.overlap = 0)
          => Lengths(ck.final) = <<10, 10, 5>>

\* C5 witness: the worked example has returned, after a hard split.
ChunkBoundWitness ==
    /\ ck.pc = "done"
    /\ ck.text = ExampleText /\ ck.max_chars = 10 /\ ck.overlap = 0
    /\ Len(ck.chunks) = 1 /\ Len(ck.final) = 3

\* C6: every iteration of the hard-split loop advances the window start by
\* a strictly positive step, so the loop cannot run forever.
HardSplitAdvances ==
    [][(ck.pc = "window" /\ ck'.pc = "window") => ck'.start > ck.start]_vars

\* The paragraphs as simple_chunk sees them, joined by one separator.
RECURSIVE JoinNL(_)
JoinNL(ps) ==
    IF ps = <<>> THEN <<>>
    ELSE IF Len(ps) = 1 THEN ps[1]
    ELSE ps[1] \o <<NL>> \o JoinNL(Tail(ps))

AllSpace(s, from, to) == \A i \in from..to : IsSpace(s[i])

\* The offsets of P at which a run of the first n chunks can end when each
\* chunk is laid on P where it occurs, starting no later than the character
\* after the previous chunk's end (join spacing apart): nothing of P between
\* two consecutive chunks is left out.
RECURSIVE CoverEnds(_, _, _)
CoverEnds(P, chunks, n) ==
    IF n = 0 THEN {0}
    ELSE LET prev == CoverEnds(P, chunks, n - 1)
             c    == chunks[n]
         IN  { s + Len(c) : s \in
                 { t \in 0..(Len(P) - Len(c)) :
                     /\ SubSeq(P, t + 1, t + Len(c)) = c
                     /\ \E e \in prev :
                           /\ t + Len(c) >= e
                           /\ (t <= e \/ AllSpace(P, e + 1, t)) } }

Covers(P, chunks) == Len(P) \in CoverEnds(P, chunks, Len(chunks))

\* C7: for every overlap < max_chars, overlap <= 0 included, the chunks
\* returned contain every character of every paragraph, in order: laid end
\* to end (overlap prefixes aside) they reconstruct the paragraphs up to
\* join spacing.
ChunkCoverage ==
    (ck.pc = "done" /\ ValidChunkConfig)
        => Covers(JoinNL(Paras(ck.text)), ck.final)

\* The same for 0 <= overlap < max_chars only.
ChunkCoverageNoNegativeOverlap ==
    (ck.pc = "done" /\ ValidChunkConfig /\ ck.overlap >= 0)
        => Covers(JoinNL(Paras(ck.text)), ck.final)

\* With a valid configuration the hard-split loop ends before the model
\* stops following it.
ValidConfigWithinPieces ==
    (ValidChunkConfig /\ ck.pc = "window") => Len(ck.final) < MaxPieces

\* The next buffer as the seeding rule states it: the last `overlap`
\* characters of the flushed buffer, one separator, then p; p alone when
\* overlap <= 0 or the flushed buffer is shorter than overlap.
SeedStated(buf, p, overlap) ==
    IF overlap <= 0 \/ Len(buf) < overlap
    THEN p
    ELSE SubSeq(buf, Len(buf) - overlap + 1, Len(buf)) \o <<NL>> \o p

\* C20: when the next paragraph p does not fit the buffer
\* (len(buf) + 1 + len(p) > max_chars), the iteration emits the buffer
\* unchanged as a chunk and the next buffer is the last `overlap` characters
\* of the flushed buffer joined to p by one separator, or p alone when
\* overlap <= 0 or the flushed buffer is shorter than overlap; a buffer of
\* exactly `overlap` characters is carried over whole and the carried
\* prefix is not shortened.
SeedBufferCarriesOverlap ==
    [][(/\ ck.pc = "paras" /\ ck.paras # <<>> /\ ck.buf # <<>>
        /\ Len(ck.buf) + 1 + Len(Head(ck.paras)) > ck.max_chars
        /\ ck'.pc = "paras" /\ ck'.paras = Tail(ck.paras)) =>
           /\ ck'.chunks = Append(ck.chunks, ck.buf)
           /\ ck'.buf = SeedStated(ck.buf, Head(ck.paras), ck.overlap)]_vars

(***************************************************************************)
(* Properties of Answerer                                                  *)
(***************************************************************************)
\* The models a call asks for: the one model of answer; for answer_multi
\* the list given, or the default pair when none is given.
Requested ==
    IF an.op = "answer" THEN an.models.list ELSE EffectiveModels(an.models)

\* C17: a generate call that fails gives a result whose answer is the error
\* text and whose sources are the retrieved ones; the models after it are
\* still called, and the call returns one result per requested model, in
\* the order requested.  Only a failure of the retrieval (embed_query or
\* col.query) leaves the call as an exception, and then no result, and no
\* error text in place of one, has been produced.
AnswerFailureHandling ==
    /\ an.pc = "raised" =>
          /\ an.err \in RetrievalErrors
          /\ an.gen = <<>> /\ an.results = <<>> /\ an.out = None
    /\ sr.pc = "raised" =>
          /\ an.pc \in {"idle", "search", "raised"}
          /\ an.results = <<>>
    /\ an.pc \in {"generate", "done"} =>
          /\ Len(an.results) = Len(an.gen)
          /\ Len(an.results) + Len(an.todo) = Len(Requested)
          /\ an.sources = an.ret.sources
          /\ \A i \in 1..Len(an.results) :
                /\ an.results[i].model = Requested[i]
                /\ an.results[i].sources = an.ret.sources
                /\ an.results[i].answer =
                      IF an.gen[i] \in GenErrors THEN ErrorText(an.gen[i])
                      ELSE GenText(Requested[i])
    /\ an.pc = "done" =>
          /\ an.todo = <<>>
          /\ an.out = IF an.op = "answer" THEN an.results[1] ELSE an.results

\* C17 witness: answer_multi was asked for two models on a search that
\* found sources; the first generate call failed, the second was still made
\* and returned, and both results carry the sources.
AnswerFailureWitness ==
    /\ an.pc = "done" /\ an.op = "answer_multi"
    /\ an.models.list = <<"solar-mini", "solar-pro">>
    /\ an.gen = <<"Timeout", "ok">>
    /\ Len(an.out) = 2
    /\ an.out[1].answer = ErrorText("Timeout")
    /\ an.out[2].answer = GenText("solar-pro")
    /\ an.ret.sources # <<>>
    /\ an.out[1].sources = an.ret.sources

\* C21: in the hard split of a chunk c longer than max_chars, with
\* 0 <= overlap < max_chars, each window starts at a multiple of
\* step = max_chars - overlap below len(c) and is c[start:start+max_chars],
\* the loop stops only when start has reached len(c), and when a further
\* window is emitted the one before it has length exactly max_chars (only
\* the last window of a chunk may be shorter).
HardSplitWindows ==
    [][(/\ ck.pc = "window"
        /\ ck.overlap >= 0 /\ ck.overlap < ck.max_chars) =>
          LET c    == ck.chunks[ck.ci]
              step == ck.max_chars - ck.overlap
          IN  /\ ck'.pc = "window" =>
                    /\ ck.start < Len(c)
                    /\ ck.start % step = 0
                    /\ ck'.start = ck.start + step
                    /\ ck'.final = Append(ck.final,
                           Slice(c, ck.start, ck.start + ck.max_chars))
                    /\ ck.start > 0 =>
                          Len(ck.final[Len(ck.final)]) = ck.max_chars
              /\ ck'.pc # "window" => ck.start >= Len(c)]_vars

=============================================================================
